---- MODULE Spec2Model ----
(***************************************************************************)
(* tf-kubernetes-configmap-backend: the HTTP handler of pkg/http/handler.go *)
(* as a state machine.  One ConfigMap ("/ns/name") in the Kubernetes store, *)
(* a set of handler goroutines, and the three collaborators of the handler  *)
(* (TokenReview, SubjectAccessReview, ConfigMap client) as nondeterministic *)
(* results.                                                                 *)
(*                                                                          *)
(* A request is handled in two atomic steps, split where the handler reads  *)
(* and where it writes the store:                                           *)
(*   ServeHTTP      lines 89-159: the gates and the Get of the ConfigMap;   *)
(*   handleXXX      the method's handler, evaluated against the snapshot    *)
(*                  fetched by ServeHTTP, ending in its one store call.     *)
(***************************************************************************)
EXTENDS Integers, Sequences, FiniteSets, TLC

VARIABLES
    compressState,  \* handler.compressState (static configuration)
    minifyState,    \* handler.minifyState   (static configuration)
    store,          \* the ConfigMap "/ns/name" in the object store
    pc,             \* per handler goroutine: "idle", "fetched", "done"
    req,            \* per handler: the request being served
    configMap,      \* per handler: the snapshot returned by Get (line 151)
    exists,         \* per handler: the exists flag (lines 149-159)
    resp,           \* per handler: the response written to w
    calls,          \* per handler: the collaborator calls made, in order
    prev,           \* the request that returned last, if it made a store
                    \* write and was answered 200; NoPrev otherwise
    granted,        \* the lock id granted last and not released since
    mutex,          \* FALSE once a second id was granted over a held lock
    served,         \* the number of requests received (ConcurrentSpec)
    register,       \* the body of the last POST answered 200 since the last
                    \* DELETE answered 200; empty when there is none
    twin,           \* TwinSpec: the run in progress (first, second), the
                    \* store before the first run and the store after it
    goroutine,      \* main.go: where the main goroutine and the goroutine of
                    \* lines 90-101 stand
    srv,            \* main.go: the http.Server (its listener, the error
                    \* ListenAndServe returned, the requests in flight)
    sigint,         \* main.go: the channel of line 91 and its registration
    idleConnsClosed, \* main.go: the channel of line 89 is closed
    interrupted     \* an interrupt signal was sent to the process

\* The state of the handler and the state of main.
handlerVars == <<compressState, minifyState, store, pc, req, configMap,
                 exists, resp, calls, prev, granted, mutex, served, register,
                 twin>>

mainVars == <<goroutine, srv, sigint, idleConnsClosed, interrupted>>

vars == <<compressState, minifyState, store, pc, req, configMap, exists,
          resp, calls, prev, granted, mutex, served, register, twin,
          goroutine, srv, sigint, idleConnsClosed, interrupted>>

(***************************************************************************)
(* Constants of the handler.                                               *)
(***************************************************************************)
MethodGet == "GET"
MethodPost == "POST"
MethodDelete == "DELETE"
MethodLock == "LOCK"
MethodUnlock == "UNLOCK"
MethodOther == "PUT"

annotationKeyLockID ==
    "tf-kubernetes-configmap-backend.jimmidyson.github.com/lock-id"
annotationKeyLockOperation ==
    "tf-kubernetes-configmap-backend.jimmidyson.github.com/lock-operation"
annotationKeyLockInfo ==
    "tf-kubernetes-configmap-backend.jimmidyson.github.com/lock-info"
annotationKeyLockWho ==
    "tf-kubernetes-configmap-backend.jimmidyson.github.com/lock-who"
LockAnnotationKeys ==
    {annotationKeyLockID, annotationKeyLockOperation,
     annotationKeyLockInfo, annotationKeyLockWho}

StatusOK == 200
StatusUnauthorized == 401
StatusForbidden == 403
StatusNotFound == 404
StatusLocked == 423
StatusInternalServerError == 500

(***************************************************************************)
(* Maps with Go's lookup semantics: a missing key reads as "".             *)
(***************************************************************************)
NoAnnotations == [k \in {} |-> ""]

Lookup(m, k) == IF k \in DOMAIN m THEN m[k] ELSE ""

Put(m, k, v) == [x \in DOMAIN m \cup {k} |-> IF x = k THEN v ELSE m[x]]

Remove(m, k) == [x \in DOMAIN m \ {k} |-> m[x]]

(***************************************************************************)
(* lockInfo and its JSON wire form.  A request body is a JSON object with  *)
(* a subset of the four fields; Decode leaves absent fields at "".         *)
(***************************************************************************)
LockFields == {"ID", "Operation", "Info", "Who"}

lockInfo(id, operation, info, who) ==
    [ID |-> id, Operation |-> operation, Info |-> info, Who |-> who]

EmptyLockInfo == lockInfo("", "", "", "")

Decode(json) == [f \in LockFields |-> Lookup(json, f)]

existingLockInfo(cm) ==
    lockInfo(Lookup(cm.Annotations, annotationKeyLockID),
             Lookup(cm.Annotations, annotationKeyLockOperation),
             Lookup(cm.Annotations, annotationKeyLockInfo),
             Lookup(cm.Annotations, annotationKeyLockWho))

(***************************************************************************)
(* Errors returned by a collaborator: a *errors.StatusError carries a      *)
(* code, any other error does not.                                         *)
(***************************************************************************)
StatusError(code) == [isStatus |-> TRUE, code |-> code]
PlainError == [isStatus |-> FALSE, code |-> 0]
NoError == [isStatus |-> FALSE, code |-> -1]

ErrNotFound == StatusError(StatusNotFound)
ErrAlreadyExists == StatusError(409)
ErrForbidden == StatusError(StatusForbidden)

\* The failures a collaborator call may end in, besides its own answer.
Faults == {StatusError(503), PlainError}
NoFaults == {}

IsNotFound(err) == err = ErrNotFound

handleAPIError(err) ==
    IF err.isStatus THEN err.code ELSE StatusInternalServerError

(***************************************************************************)
(* The state codec.  State bytes are sequences over a four-letter alphabet: *)
(* "{" and "}" (JSON structure), " " (JSON whitespace) and "x" (a byte that *)
(* is no JSON).  A gzip stream is a header, the data and a trailer.         *)
(***************************************************************************)
GzipHeader == "gzip-header"
GzipTrailer == "gzip-trailer"

Gzip(b) == <<GzipHeader>> \o b \o <<GzipTrailer>>

IsWhitespace(c) == c = " "

\* minifyjson.Minify: drops the whitespace, fails on a grammar error.
Minify(b) ==
    [err |-> \E i \in 1..Len(b) : b[i] = "x",
     out |-> SelectSeq(b, LAMBDA c : ~IsWhitespace(c))]

\* Variant of getTFStateForWriting that does not close the gzip writer: the
\* stream ends without its trailer.
getTFStateUnclosed(r, compress, minify) ==
    LET m == IF minify THEN Minify(r) ELSE [err |-> FALSE, out |-> r]
    IN  IF m.err THEN [err |-> TRUE, out |-> <<>>]
        ELSE [err |-> FALSE,
              out |-> IF compress THEN <<GzipHeader>> \o m.out ELSE m.out]

getTFStateForWriting(r, compress, minify) ==
    LET m == IF minify THEN Minify(r) ELSE [err |-> FALSE, out |-> r]
    IN  IF m.err THEN [err |-> TRUE, out |-> <<>>]
        ELSE [err |-> FALSE, out |-> IF compress THEN Gzip(m.out) ELSE m.out]

\* gzip.NewReader followed by io.Copy: `header` is whether NewReader accepts
\* the stream, `out` the bytes copied to w, `err` whether the copy failed.
Gunzip(b) ==
    IF Len(b) = 0 \/ b[1] # GzipHeader
    THEN [header |-> FALSE, err |-> TRUE, out |-> <<>>]
    ELSE LET rest == SubSeq(b, 2, Len(b))
             data == SelectSeq(rest, LAMBDA c : c # GzipTrailer)
         IN  [header |-> TRUE,
              err |-> ~(Len(rest) > 0 /\ rest[Len(rest)] = GzipTrailer),
              out |-> data]

(***************************************************************************)
(* v1.ConfigMap, as far as the handler reads and writes it.                *)
(***************************************************************************)
NoBinaryData == [k \in {} |-> <<>>]

EmptyConfigMap ==
    [Name |-> "", Annotations |-> NoAnnotations, BinaryData |-> NoBinaryData]

NoObject == [present |-> FALSE, obj |-> EmptyConfigMap]

(***************************************************************************)
(* The ConfigMap client.  `fault` is NoError or the failure the call ends   *)
(* in; each operator returns the error of the call and the store after it. *)
(* Update replaces the stored object by the one it is given (the last      *)
(* write wins); Create refuses an existing object, Update and Delete an    *)
(* absent one; the client refuses an empty resource name.                  *)
(***************************************************************************)
Get(st, name, fault) ==
    IF fault # NoError THEN [err |-> fault, obj |-> EmptyConfigMap]
    ELSE IF name = "" THEN [err |-> PlainError, obj |-> EmptyConfigMap]
    ELSE IF ~st.present THEN [err |-> ErrNotFound, obj |-> EmptyConfigMap]
    ELSE [err |-> NoError, obj |-> st.obj]

Update(st, cm, fault) ==
    IF fault # NoError THEN [err |-> fault, store |-> st]
    ELSE IF ~st.present THEN [err |-> ErrNotFound, store |-> st]
    ELSE [err |-> NoError, store |-> [present |-> TRUE, obj |-> cm]]

Create(st, cm, fault) ==
    IF fault # NoError THEN [err |-> fault, store |-> st]
    ELSE IF st.present THEN [err |-> ErrAlreadyExists, store |-> st]
    ELSE [err |-> NoError, store |-> [present |-> TRUE, obj |-> cm]]

Delete(st, name, fault) ==
    IF fault # NoError THEN [err |-> fault, store |-> st]
    ELSE IF ~st.present THEN [err |-> ErrNotFound, store |-> st]
    ELSE [err |-> NoError, store |-> NoObject]

(***************************************************************************)
(* Requests.  A path is a sequence of "/" and segment names; a body is     *)
(* absent, a JSON object, bytes that are no JSON object, or state bytes.   *)
(***************************************************************************)
Handlers == {"h1", "h2"}
FirstHandler == "h1"

Join(s) == IF s = <<>> THEN "" ELSE s[1]

\* strings.Split(s, "/")
RECURSIVE Split(_)
Split(s) ==
    IF \E i \in 1..Len(s) : s[i] = "/"
    THEN LET i == CHOOSE j \in 1..Len(s) :
                      s[j] = "/" /\ \A k \in 1..(j - 1) : s[k] # "/"
         IN  <<Join(SubSeq(s, 1, i - 1))>> \o Split(SubSeq(s, i + 1, Len(s)))
    ELSE <<Join(s)>>

GoodPath == <<"/", "ns", "/", "name">>
Paths ==
    {GoodPath, <<"/", "ns">>, <<"/", "ns", "/", "name", "/", "x">>,
     <<"/", "ns", "/">>, <<"/", "/">>}

NoBody == [kind |-> "none", json |-> <<>>, raw |-> <<>>]
MalformedBody == [kind |-> "malformed", json |-> <<>>, raw |-> <<>>]
JSONBody(j) == [kind |-> "json", json |-> j, raw |-> <<>>]
StateBody(b) == [kind |-> "state", json |-> <<>>, raw |-> b]

LockIDs == {"", "A", "B"}

LockBodies ==
    {[ID |-> "A", Operation |-> "apply", Info |-> "i1", Who |-> "w1"],
     [ID |-> "A", Operation |-> "plan", Who |-> "w2"],
     [ID |-> "B", Operation |-> "apply", Info |-> "i1", Who |-> "w1"],
     [Operation |-> "apply"]}

RawStates == {<<>>, <<"{", " ", "}">>, <<"x">>}

\* The two fields of the basic-auth credential.
Usernames == {"terraform", "admin"}
Passwords == {"token", "other-token"}

Request(method, basicAuth, path, id, body, contentLength) ==
    [method |-> method, basicAuth |-> basicAuth,
     username |-> IF basicAuth THEN "terraform" ELSE "",
     password |-> IF basicAuth THEN "token" ELSE "",
     path |-> path, queryID |-> id, body |-> body,
     contentLength |-> contentLength]

NoRequest == Request("", FALSE, <<>>, "", NoBody, 0)

Methods ==
    {MethodGet, MethodPost, MethodDelete, MethodLock, MethodUnlock, MethodOther}

\* The requests on the good path, by method.
GetRequests == {Request(MethodGet, TRUE, GoodPath, "", NoBody, 0)}
PostRequests ==
    {Request(MethodPost, TRUE, GoodPath, id, StateBody(b), Len(b)) :
        id \in LockIDs, b \in RawStates \ {<<"x">>}}
    \cup {Request(MethodPost, TRUE, GoodPath, "", StateBody(<<"x">>), 1)}
DeleteRequests ==
    {Request(MethodDelete, TRUE, GoodPath, id, NoBody, 0) : id \in LockIDs}
LockRequests ==
    {Request(MethodLock, TRUE, GoodPath, "", JSONBody(j), 1) : j \in LockBodies}
    \cup {Request(MethodLock, TRUE, GoodPath, "", b, 0) : b \in {NoBody, MalformedBody}}
UnlockRequests ==
    {Request(MethodUnlock, TRUE, GoodPath, "", JSONBody(j), 1) : j \in LockBodies}
    \cup {Request(MethodUnlock, TRUE, GoodPath, "", NoBody, 0),
          Request(MethodUnlock, TRUE, GoodPath, "", MalformedBody, 1),
          Request(MethodUnlock, TRUE, GoodPath, "",
                  JSONBody([ID |-> "B"]), -1),
          Request(MethodUnlock, TRUE, GoodPath, "", MalformedBody, -1)}
OtherRequests == {Request(MethodOther, TRUE, GoodPath, "", NoBody, 0)}

Requests ==
    GetRequests \cup PostRequests \cup DeleteRequests \cup LockRequests
    \cup UnlockRequests \cup OtherRequests
    \cup {Request(m, FALSE, p, "", NoBody, 0) : m \in Methods, p \in Paths}
    \cup {Request(m, TRUE, p, "", NoBody, 0) : m \in Methods, p \in Paths}

\* The requests of the concurrent specification: two lock holders, the
\* release of the lock and the guarded writes.
ConcurrentRequests ==
    {r \in LockRequests :
        r.body.kind = "json" /\ Decode(r.body.json).ID # ""
        /\ Decode(r.body.json).Operation = "apply"}
    \cup {r \in UnlockRequests :
        r.contentLength >= 0 /\ r.body.kind # "malformed"
        /\ (r.body.kind = "json" => Decode(r.body.json).ID = "A"
                                    /\ Decode(r.body.json).Operation = "apply")}
    \cup {r \in PostRequests : r.queryID # "B" /\ r.body.raw # <<"x">>}
    \cup {r \in DeleteRequests : r.queryID # "B"}
    \cup GetRequests

(***************************************************************************)
(* Responses and the log of collaborator calls.                            *)
(***************************************************************************)
Response(status, kind, lock, bytes) ==
    [status |-> status, wwwAuthenticate |-> FALSE, kind |-> kind,
     lock |-> lock, bytes |-> bytes]

NoResponse == Response(0, "none", EmptyLockInfo, <<>>)
EmptyResponse(status) == Response(status, "empty", EmptyLockInfo, <<>>)
TextResponse(status) == Response(status, "text", EmptyLockInfo, <<>>)
LockedResponse(cm) ==
    Response(StatusLocked, "lock", existingLockInfo(cm), <<>>)
StateResponse(status, b) == Response(status, "state", EmptyLockInfo, b)
\* State bytes followed by the text of an error: the bytes were written, and
\* with them the status 200, before the copy failed.
PartialResponse(b) == Response(StatusOK, "state+text", EmptyLockInfo, b)
ErrorResponse(err) ==
    IF err.isStatus THEN TextResponse(handleAPIError(err))
    ELSE EmptyResponse(handleAPIError(err))

Call(fn, arg, err, ok) == [fn |-> fn, arg |-> arg, err |-> err, ok |-> ok]

\* The answers of TokenReview and SubjectAccessReview: an error, or a
\* verdict (authenticated, allowed).
Reviews(E) ==
    {[err |-> NoError, ok |-> TRUE], [err |-> NoError, ok |-> FALSE]}
    \cup {[err |-> e, ok |-> FALSE] : e \in E}

Complete(h, response, newCalls) ==
    /\ pc' = [pc EXCEPT ![h] = "done"]
    /\ resp' = [resp EXCEPT ![h] = response]
    /\ calls' = [calls EXCEPT ![h] = @ \o newCalls]

NoHolder == [held |-> FALSE, id |-> ""]
Holder(id) == [held |-> TRUE, id |-> id]

NoPrev ==
    [method |-> "", status |-> 0, apiVerb |-> "", id |-> "",
     locked |-> FALSE, holder |-> ""]

\* main at line 89: the server value is built, nothing runs yet.
InitMain ==
    /\ goroutine = [main |-> "start", signal |-> "unborn"]
    /\ srv = [listener |-> "none", err |-> "none", inShutdown |-> FALSE,
              active |-> 0]
    /\ sigint = [notify |-> FALSE, len |-> 0]
    /\ idleConnsClosed = FALSE
    /\ interrupted = FALSE

\* The handler after NewHandler, no request received yet.
InitHandler ==
    /\ InitMain
    /\ compressState \in BOOLEAN
    /\ minifyState \in BOOLEAN
    /\ pc = [h \in Handlers |-> "idle"]
    /\ req = [h \in Handlers |-> NoRequest]
    /\ configMap = [h \in Handlers |-> EmptyConfigMap]
    /\ exists = [h \in Handlers |-> FALSE]
    /\ resp = [h \in Handlers |-> NoResponse]
    /\ calls = [h \in Handlers |-> <<>>]
    /\ prev = NoPrev
    /\ granted = NoHolder
    /\ mutex = TRUE
    /\ served = 0
    /\ register = <<>>
    /\ twin = [stage |-> "first", before |-> NoObject, after |-> NoObject]

Init == InitHandler /\ store = NoObject

\* The objects a handler may find stored under its name without having
\* written them: a state written with compression (a complete gzip stream),
\* one written without, a gzip stream cut after its data or after its
\* header, and an empty value.
StoredStates ==
    {Gzip(<<"{", "}">>), <<"{", "}">>, <<GzipHeader, "{", "}">>,
     <<GzipHeader>>, <<>>}

StoredObjects ==
    {[present |-> TRUE,
      obj |-> [Name |-> "name", Annotations |-> NoAnnotations,
               BinaryData |-> Put(NoBinaryData, "tfstate", b)]] :
        b \in StoredStates}

StoredInit == InitHandler /\ store \in StoredObjects

(***************************************************************************)
(* ServeHTTP, lines 89-159: basic auth, TokenReview, the path, the         *)
(* SubjectAccessReview for "get" and the Get of the ConfigMap.             *)
(***************************************************************************)
\* Variant of hasBasicAuth that takes every request as carrying a credential.
hasBasicAuthAlways(r) == TRUE

\* Lines 90-91: req.BasicAuth() found a credential.
hasBasicAuth(r) == r.basicAuth

\* Variant of basicAuthToken that takes the username as the token.
basicAuthTokenFromUsername(r) == r.username

\* Line 90: `_, token, ok := req.BasicAuth()`, the password is the token.
basicAuthToken(r) == r.password

\* Variant of authenticated that trusts every reviewed token.
authenticatedAlways(tr) == TRUE

\* Line 107: tokenReviewResponse.Status.Authenticated.
authenticated(tr) == tr.ok

\* Variant of allowed that ignores the verdict of the authorizer.
allowedAlways(sar) == TRUE

\* Line 142: sarResponse.Status.Allowed of the review for "get".
allowed(sar) == sar.ok

ServeHTTP(h, r, E) ==
    /\ pc[h] = "idle"
    /\ req' = [req EXCEPT ![h] = r]
    /\ \E tr \in Reviews(E), sar \in Reviews(E), fault \in {NoError} \cup E :
        LET splitPath == Split(Tail(r.path))
            configMapName == splitPath[2]
            got == Get(store, configMapName, fault)
            c1 == <<Call("TokenReview", basicAuthToken(r), tr.err, tr.ok)>>
            c2 == c1 \o <<Call("SubjectAccessReview", "get", sar.err, sar.ok)>>
            c3 == c2 \o <<Call("Get", "", got.err, got.err = NoError)>>
        IN  IF ~hasBasicAuth(r)
            THEN /\ Complete(h, [EmptyResponse(StatusUnauthorized)
                                    EXCEPT !.wwwAuthenticate = TRUE], <<>>)
                 /\ UNCHANGED <<configMap, exists>>
            ELSE IF tr.err # NoError
            THEN /\ Complete(h, ErrorResponse(tr.err), c1)
                 /\ UNCHANGED <<configMap, exists>>
            ELSE IF ~authenticated(tr)
            THEN /\ Complete(h, EmptyResponse(StatusForbidden), c1)
                 /\ UNCHANGED <<configMap, exists>>
            ELSE IF Len(splitPath) # 2
            THEN /\ Complete(h, EmptyResponse(StatusNotFound), c1)
                 /\ UNCHANGED <<configMap, exists>>
            ELSE IF sar.err # NoError
            THEN /\ Complete(h, ErrorResponse(sar.err), c2)
                 /\ UNCHANGED <<configMap, exists>>
            ELSE IF ~allowed(sar)
            THEN /\ Complete(h, EmptyResponse(StatusForbidden), c2)
                 /\ UNCHANGED <<configMap, exists>>
            ELSE IF got.err # NoError /\ ~IsNotFound(got.err)
            THEN /\ Complete(h, ErrorResponse(got.err), c3)
                 /\ UNCHANGED <<configMap, exists>>
            ELSE /\ pc' = [pc EXCEPT ![h] = "fetched"]
                 /\ configMap' = [configMap EXCEPT ![h] = got.obj]
                 /\ exists' = [exists EXCEPT ![h] = (got.err = NoError)]
                 /\ calls' = [calls EXCEPT ![h] = c3]
                 /\ UNCHANGED resp
    /\ UNCHANGED <<compressState, minifyState, store, prev, granted, mutex,
                   register>>

(***************************************************************************)
(* The method handlers.  Each is evaluated on the snapshot configMap[h].   *)
(***************************************************************************)
\* Variant of checkAccess that reports a failed review but not a denial.
checkAccessIgnoresDenial(review) ==
    IF review.err # NoError THEN review.err ELSE NoError

checkAccess(review) ==
    IF review.err # NoError THEN review.err
    ELSE IF ~review.ok THEN ErrForbidden
    ELSE NoError

AccessCall(apiVerb, review) ==
    <<Call("SubjectAccessReview", apiVerb, review.err, review.ok)>>

\* Variants of the write guard: one that lets every request pass, one that
\* checks the id only when the object carries a lock id.
checkRequestAlwaysPasses(cm, r) == TRUE

checkRequestOnlyWhenLocked(cm, r) ==
    \/ Lookup(cm.Annotations, annotationKeyLockID) = ""
    \/ Lookup(cm.Annotations, annotationKeyLockID) = r.queryID

\* TRUE when the request passes the write guard.
checkRequestIsFromLocker(cm, r) ==
    Lookup(cm.Annotations, annotationKeyLockID) = r.queryID

\* Variants of the lock test: the comparison inverted, and an empty lock id
\* read as no lock.
lockConflictInverted(cm, requestLockInfo) ==
    /\ annotationKeyLockID \in DOMAIN cm.Annotations
    /\ cm.Annotations[annotationKeyLockID] = requestLockInfo.ID

lockConflictNonEmpty(cm, requestLockInfo) ==
    /\ Lookup(cm.Annotations, annotationKeyLockID) # ""
    /\ cm.Annotations[annotationKeyLockID] # requestLockInfo.ID

\* The lock test of handleLOCK and handleUNLOCK: TRUE on a conflict.
lockConflict(cm, requestLockInfo) ==
    /\ annotationKeyLockID \in DOMAIN cm.Annotations
    /\ cm.Annotations[annotationKeyLockID] # requestLockInfo.ID

\* Variant of setLockAnnotations that writes the lock id alone.
setLockIDOnly(cm, requestLockInfo) ==
    [cm EXCEPT !.Annotations =
        Put(@, annotationKeyLockID, requestLockInfo.ID)]

setLockAnnotations(cm, requestLockInfo) ==
    [cm EXCEPT !.Annotations =
        Put(Put(Put(Put(@, annotationKeyLockID, requestLockInfo.ID),
                    annotationKeyLockOperation, requestLockInfo.Operation),
                annotationKeyLockInfo, requestLockInfo.Info),
            annotationKeyLockWho, requestLockInfo.Who)]

\* Variant of deleteLockAnnotations that removes the lock id alone.
deleteLockIDOnly(cm) ==
    [cm EXCEPT !.Annotations = Remove(@, annotationKeyLockID)]

deleteLockAnnotations(cm) ==
    [cm EXCEPT !.Annotations =
        Remove(Remove(Remove(Remove(@, annotationKeyLockID),
                             annotationKeyLockOperation),
                      annotationKeyLockInfo),
               annotationKeyLockWho)]

\* Variant of dispatch that serves the other methods as a POST.
dispatchOtherAsPost(method) ==
    IF method \in {MethodGet, MethodPost, MethodDelete, MethodLock,
                   MethodUnlock}
    THEN method ELSE MethodPost

\* Lines 161-189: the case of the method switch a request is served by.
dispatch(method) ==
    IF method \in {MethodGet, MethodPost, MethodDelete, MethodLock,
                   MethodUnlock}
    THEN method ELSE "default"

\* The response of handleGET for a snapshot.
getResponse(cm, compress) ==
    IF "tfstate" \notin DOMAIN cm.BinaryData THEN EmptyResponse(StatusOK)
    ELSE IF ~compress THEN StateResponse(StatusOK, cm.BinaryData["tfstate"])
    ELSE LET z == Gunzip(cm.BinaryData["tfstate"])
         IN  IF ~z.header THEN TextResponse(StatusInternalServerError)
             ELSE IF z.err /\ z.out = <<>>
             THEN TextResponse(StatusInternalServerError)
             ELSE IF z.err THEN PartialResponse(z.out)
             ELSE StateResponse(StatusOK, z.out)

handleGET(h) ==
    /\ pc[h] = "fetched"
    /\ dispatch(req[h].method) = MethodGet
    /\ Complete(h, getResponse(configMap[h], compressState), <<>>)
    /\ UNCHANGED <<compressState, minifyState, store, req, configMap, exists,
                   prev, granted, mutex, served, register>>

\* Variant of selectAPIVerb that asks for "update" whether or not the object
\* exists.
selectAPIVerbUpdate(ex) == "update"

\* Lines 165-169 and 174-178: the action of POST and LOCK.
selectAPIVerb(ex) == IF ex THEN "update" ELSE "create"

\* Variant of createOrUpdate that creates the object without its name.
createOrUpdateUnnamed(st, apiVerb, cm, configMapName, fault) ==
    IF apiVerb = "update" THEN Update(st, cm, fault)
    ELSE Create(st, cm, fault)

\* The create-or-update switch of handlePOST and handleLOCK.
createOrUpdate(st, apiVerb, cm, configMapName, fault) ==
    IF apiVerb = "update" THEN Update(st, cm, fault)
    ELSE Create(st, [cm EXCEPT !.Name = configMapName], fault)

\* Variant of WriteCall that makes the write a second time when it failed.
WriteCallRetried(apiVerb, err) ==
    LET c == Call(IF apiVerb = "update" THEN "Update" ELSE "Create", "",
                  err, err = NoError)
    IN  IF err # NoError THEN <<c, c>> ELSE <<c>>

WriteCall(apiVerb, err) ==
    <<Call(IF apiVerb = "update" THEN "Update" ELSE "Create", "", err,
           err = NoError)>>

\* Variant of setTFState that puts the state into a new ConfigMap instead of
\* the one fetched.
setTFStateOnNew(cm, state) ==
    [EmptyConfigMap EXCEPT !.Name = cm.Name,
                           !.BinaryData = Put(NoBinaryData, "tfstate", state)]

\* Lines 242-245: configMap.BinaryData["tfstate"] = reqTFState.
setTFState(cm, state) ==
    [cm EXCEPT !.BinaryData = Put(@, "tfstate", state)]

\* Variant of accessRefused that evaluates the write guard first: an error of
\* checkAccess ends the request only when the guard lets the request pass.
accessRefusedAfterGuard(err, cm, r) ==
    err # NoError /\ checkRequestIsFromLocker(cm, r)

\* Lines 223-229 and 264-268: an error of checkAccess ends the request before
\* the write guard looks at the object.
accessRefused(err, cm, r) == err # NoError

handlePOST(h, E) ==
    /\ pc[h] = "fetched"
    /\ dispatch(req[h].method) = MethodPost
    /\ \E review \in Reviews(E), fault \in {NoError} \cup E :
        LET r == req[h]
            cm == configMap[h]
            apiVerb == selectAPIVerb(exists[h])
            err == checkAccess(review)
            reqTFState ==
                getTFStateForWriting(r.body.raw, compressState, minifyState)
            written == setTFState(cm, reqTFState.out)
            res == createOrUpdate(store, apiVerb, written, Split(Tail(r.path))[2],
                                  fault)
        IN  IF accessRefused(err, cm, r)
            THEN /\ Complete(h, ErrorResponse(err), AccessCall(apiVerb, review))
                 /\ UNCHANGED <<store, register>>
            ELSE IF ~checkRequestIsFromLocker(cm, r)
            THEN /\ Complete(h, LockedResponse(cm), AccessCall(apiVerb, review))
                 /\ UNCHANGED <<store, register>>
            ELSE IF reqTFState.err
            THEN /\ Complete(h, TextResponse(StatusInternalServerError),
                             AccessCall(apiVerb, review))
                 /\ UNCHANGED <<store, register>>
            ELSE /\ store' = res.store
                 /\ Complete(h,
                        IF res.err # NoError THEN ErrorResponse(res.err)
                        ELSE EmptyResponse(StatusOK),
                        AccessCall(apiVerb, review) \o WriteCall(apiVerb, res.err))
                 /\ register' = IF res.err = NoError THEN r.body.raw
                                 ELSE register
    /\ UNCHANGED <<compressState, minifyState, req, configMap, exists, prev,
                   granted, mutex, served>>

\* Lines 276-279: the error of Delete is reported when it is a not-found.
deleteResponse(err) ==
    IF err # NoError /\ IsNotFound(err) THEN ErrorResponse(err)
    ELSE EmptyResponse(StatusOK)

handleDELETE(h, E) ==
    /\ pc[h] = "fetched"
    /\ dispatch(req[h].method) = MethodDelete
    /\ \E review \in Reviews(E), fault \in {NoError} \cup E :
        LET r == req[h]
            cm == configMap[h]
            err == checkAccess(review)
            res == Delete(store, Split(Tail(r.path))[2], fault)
            answer == deleteResponse(res.err)
        IN  IF accessRefused(err, cm, r)
            THEN /\ Complete(h, ErrorResponse(err), AccessCall("delete", review))
                 /\ UNCHANGED <<store, granted, register>>
            ELSE IF ~checkRequestIsFromLocker(cm, r)
            THEN /\ Complete(h, LockedResponse(cm), AccessCall("delete", review))
                 /\ UNCHANGED <<store, granted, register>>
            ELSE /\ store' = res.store
                 /\ Complete(h, answer,
                        AccessCall("delete", review)
                        \o <<Call("Delete", "", res.err, res.err = NoError)>>)
                 /\ granted' = IF answer.status = StatusOK THEN NoHolder
                               ELSE granted
                 /\ register' = IF answer.status = StatusOK THEN <<>>
                                 ELSE register
    /\ UNCHANGED <<compressState, minifyState, req, configMap, exists, prev,
                   mutex, served>>

\* json.NewDecoder(req.Body).Decode(requestLockInfo)
decodeLockInfo(body) ==
    IF body.kind = "json" THEN [err |-> FALSE, info |-> Decode(body.json)]
    ELSE [err |-> TRUE, info |-> EmptyLockInfo]

handleLOCK(h, E) ==
    /\ pc[h] = "fetched"
    /\ dispatch(req[h].method) = MethodLock
    /\ \E review \in Reviews(E), fault \in {NoError} \cup E :
        LET r == req[h]
            cm == configMap[h]
            apiVerb == selectAPIVerb(exists[h])
            err == checkAccess(review)
            decoded == decodeLockInfo(r.body)
            requestLockInfo == decoded.info
            locked == setLockAnnotations(cm, requestLockInfo)
            res == createOrUpdate(store, apiVerb, locked, Split(Tail(r.path))[2],
                                  fault)
        IN  IF err # NoError
            THEN /\ Complete(h, ErrorResponse(err), AccessCall(apiVerb, review))
                 /\ UNCHANGED <<store, granted, mutex>>
            ELSE IF decoded.err
            THEN /\ Complete(h, TextResponse(StatusInternalServerError),
                             AccessCall(apiVerb, review))
                 /\ UNCHANGED <<store, granted, mutex>>
            ELSE IF lockConflict(cm, requestLockInfo)
            THEN /\ Complete(h, LockedResponse(cm), AccessCall(apiVerb, review))
                 /\ UNCHANGED <<store, granted, mutex>>
            ELSE /\ store' = res.store
                 /\ Complete(h,
                        IF res.err # NoError THEN ErrorResponse(res.err)
                        ELSE EmptyResponse(StatusOK),
                        AccessCall(apiVerb, review) \o WriteCall(apiVerb, res.err))
                 /\ IF res.err = NoError
                    THEN /\ granted' = Holder(requestLockInfo.ID)
                         /\ mutex' = (mutex /\ (granted.held =>
                                        granted.id = requestLockInfo.ID))
                    ELSE UNCHANGED <<granted, mutex>>
    /\ UNCHANGED <<compressState, minifyState, req, configMap, exists, prev,
                   served, register>>

\* Variant of notExists that lets an UNLOCK through on an absent object.
notExistsNever(ex) == FALSE

\* Lines 181-184: UNLOCK requires the object to exist.
notExists(ex) == ~ex

\* Variant of hasBody that also reads a body of length zero.
hasBodyNonNegative(r) == r.contentLength >= 0

\* Line 346: the body is read when the request declares a length.
hasBody(r) == r.contentLength > 0

handleUNLOCK(h, E) ==
    /\ pc[h] = "fetched"
    /\ dispatch(req[h].method) = MethodUnlock
    /\ \E review \in Reviews(E), fault \in {NoError} \cup E :
        LET r == req[h]
            cm == configMap[h]
            err == checkAccess(review)
            decoded == decodeLockInfo(r.body)
            res == Update(store, deleteLockAnnotations(cm), fault)
        IN  IF notExists(exists[h])
            THEN /\ Complete(h, EmptyResponse(StatusNotFound), <<>>)
                 /\ UNCHANGED <<store, granted>>
            ELSE IF err # NoError
            THEN /\ Complete(h, ErrorResponse(err), AccessCall("update", review))
                 /\ UNCHANGED <<store, granted>>
            ELSE IF hasBody(r) /\ decoded.err
            THEN /\ Complete(h, TextResponse(StatusInternalServerError),
                             AccessCall("update", review))
                 /\ UNCHANGED <<store, granted>>
            ELSE IF hasBody(r) /\ lockConflict(cm, decoded.info)
            THEN /\ Complete(h, LockedResponse(cm), AccessCall("update", review))
                 /\ UNCHANGED <<store, granted>>
            ELSE /\ store' = res.store
                 /\ Complete(h,
                        IF res.err # NoError THEN ErrorResponse(res.err)
                        ELSE EmptyResponse(StatusOK),
                        AccessCall("update", review) \o WriteCall("update", res.err))
                 /\ granted' = IF res.err = NoError THEN NoHolder ELSE granted
    /\ UNCHANGED <<compressState, minifyState, req, configMap, exists, prev,
                   mutex, served, register>>

\* The default case of the switch, lines 187-188.
handleDefault(h) ==
    /\ pc[h] = "fetched"
    /\ dispatch(req[h].method) = "default"
    /\ Complete(h, EmptyResponse(StatusNotFound), <<>>)
    /\ UNCHANGED <<compressState, minifyState, store, req, configMap, exists,
                   prev, granted, mutex, served, register>>

\* ServeHTTP returns: the goroutine is free for the next request.
Return(h) ==
    /\ pc[h] = "done"
    /\ pc' = [pc EXCEPT ![h] = "idle"]
    /\ req' = [req EXCEPT ![h] = NoRequest]
    /\ configMap' = [configMap EXCEPT ![h] = EmptyConfigMap]
    /\ exists' = [exists EXCEPT ![h] = FALSE]
    /\ resp' = [resp EXCEPT ![h] = NoResponse]
    /\ calls' = [calls EXCEPT ![h] = <<>>]
    /\ UNCHANGED <<compressState, minifyState, store, granted, mutex, served,
                   register>>

\* The request handler h returns from, when it made a store write and was
\* answered 200: its method, status and action, the lock id it carried (in
\* the body of LOCK and UNLOCK, in the query of POST and DELETE) and the lock
\* of its snapshot.
lastWrite(h) ==
    IF resp[h].status = StatusOK /\ Len(calls[h]) = 5
    THEN [method |-> req[h].method, status |-> resp[h].status,
          apiVerb |-> calls[h][4].arg,
          id |-> IF req[h].body.kind = "json"
                 THEN Decode(req[h].body.json).ID ELSE req[h].queryID,
          locked |-> annotationKeyLockID \in DOMAIN configMap[h].Annotations,
          holder |-> Lookup(configMap[h].Annotations, annotationKeyLockID)]
    ELSE NoPrev

\* The number of requests ConcurrentSpec follows.
MaxRequests == 3

(***************************************************************************)
(* Spec: requests are handled one at a time and every collaborator call    *)
(* may fail; prev follows the request that returned last.                  *)
(* ConcurrentSpec: the handler goroutines interleave at their store calls, *)
(* for MaxRequests requests; the collaborators do not fail.                *)
(***************************************************************************)
Next ==
    /\ UNCHANGED <<twin, mainVars>>
    /\ \/ \E r \in Requests :
             ServeHTTP(FirstHandler, r, Faults) /\ UNCHANGED served
       \/ handleGET(FirstHandler)
       \/ handlePOST(FirstHandler, Faults)
       \/ handleDELETE(FirstHandler, Faults)
       \/ handleLOCK(FirstHandler, Faults)
       \/ handleUNLOCK(FirstHandler, Faults)
       \/ handleDefault(FirstHandler)
       \/ Return(FirstHandler) /\ prev' = lastWrite(FirstHandler)

Spec == Init /\ [][Next]_vars

ConcurrentNext ==
    \E h \in Handlers :
        /\ UNCHANGED <<twin, mainVars>>
        /\ \/ \E r \in ConcurrentRequests :
                 /\ served < MaxRequests
                 /\ ServeHTTP(h, r, NoFaults)
                 /\ served' = served + 1
           \/ handleGET(h)
           \/ handlePOST(h, NoFaults)
           \/ handleDELETE(h, NoFaults)
           \/ handleLOCK(h, NoFaults)
           \/ handleUNLOCK(h, NoFaults)
           \/ Return(h) /\ UNCHANGED prev

ConcurrentSpec == Init /\ [][ConcurrentNext]_vars

\* StoredSpec: GET and POST requests, one at a time, on an object that is
\* stored when the handler starts.
StoredNext ==
    /\ UNCHANGED <<twin, mainVars>>
    /\ \/ \E r \in GetRequests \cup PostRequests :
             ServeHTTP(FirstHandler, r, Faults) /\ UNCHANGED served
       \/ handleGET(FirstHandler)
       \/ handlePOST(FirstHandler, Faults)
       \/ Return(FirstHandler) /\ prev' = lastWrite(FirstHandler)

(***************************************************************************)
(* TwinSpec: every request is run twice from the same store, the second    *)
(* time under another username.  The first run is served by the first      *)
(* handler; Rewind keeps the store it left and puts back the store it       *)
(* started from; the second handler then serves the twin of the request.   *)
(***************************************************************************)
SecondHandler == "h2"

TwinRequests ==
    {[r EXCEPT !.password = p] :
        r \in {q \in Requests :
                 /\ q.basicAuth
                 /\ q.path = GoodPath
                 /\ q.queryID # "B"
                 /\ q.contentLength >= 0
                 /\ q.body.kind \in {"none", "state", "json"}
                 /\ q.body.kind = "state" => q.body.raw = <<"{", " ", "}">>
                 /\ q.body.kind = "json"
                    => Decode(q.body.json) = lockInfo("A", "apply", "i1", "w1")
                 /\ q.method = MethodLock => q.body.kind = "json"},
        p \in Passwords}

Twin(r, u) == [r EXCEPT !.username = u]

Rewind ==
    /\ twin.stage = "first"
    /\ pc[FirstHandler] = "done"
    /\ twin' = [twin EXCEPT !.stage = "second", !.after = store]
    /\ store' = twin.before
    /\ UNCHANGED <<compressState, minifyState, pc, req, configMap, exists,
                   resp, calls, prev, granted, mutex, served, register,
                   mainVars>>

TwinNext ==
    \/ \E r \in TwinRequests :
          /\ twin.stage = "first"
          /\ ServeHTTP(FirstHandler, r, Faults)
          /\ twin' = [twin EXCEPT !.before = store]
          /\ UNCHANGED <<served, mainVars>>
    \/ Rewind
    \/ \E u \in Usernames \ {req[FirstHandler].username} :
          /\ twin.stage = "second"
          /\ ServeHTTP(SecondHandler, Twin(req[FirstHandler], u), Faults)
          /\ UNCHANGED <<served, twin, mainVars>>
    \/ \E h \in Handlers :
          /\ UNCHANGED <<twin, mainVars>>
          /\ \/ handleGET(h)
             \/ handlePOST(h, Faults)
             \/ handleDELETE(h, Faults)
             \/ handleLOCK(h, Faults)
             \/ handleUNLOCK(h, Faults)
             \/ handleDefault(h)
    \/ /\ twin.stage = "second"
       /\ Return(SecondHandler)
       /\ twin' = [twin EXCEPT !.stage = "third"]
       /\ UNCHANGED <<prev, mainVars>>
    \/ /\ twin.stage = "third"
       /\ Return(FirstHandler)
       /\ twin' = [stage |-> "first", before |-> NoObject, after |-> NoObject]
       /\ UNCHANGED <<prev, mainVars>>

TwinSpec == Init /\ [][TwinNext]_vars

StoredSpec == StoredInit /\ [][StoredNext]_vars

(***************************************************************************)
(* main, cmd/tf-kubernetes-configmap-backend/main.go lines 89-110: the     *)
(* main goroutine starts the goroutine that waits for the interrupt, calls *)
(* ListenAndServe and then waits for idleConnsClosed.  The http.Server is  *)
(* its listener and the number of requests in flight; what the handler     *)
(* does with a request is left to the specifications above.                *)
(*   main:    "start" 89, "listen" 104, "serving" in ListenAndServe,       *)
(*            "wait" 109, "exited" 110, "killed" by the signal             *)
(*   signal:  "unborn", "notify" 91-92, "receive" 93, "shutdown" 96,       *)
(*            "draining" in Shutdown, "close" 100, "end"                   *)
(***************************************************************************)
\* The number of requests in flight the model follows.
MaxConns == 2

Running == goroutine.main \notin {"exited", "killed"}

\* Lines 89-101: make(chan struct{}) and the go statement.
GoSignalHandler ==
    /\ goroutine.main = "start"
    /\ goroutine' = [main |-> "listen", signal |-> "notify"]
    /\ UNCHANGED <<srv, sigint, idleConnsClosed, interrupted>>

\* Lines 91-92: sigint := make(chan os.Signal, 1); signal.Notify.
Notify ==
    /\ Running
    /\ goroutine.signal = "notify"
    /\ goroutine' = [goroutine EXCEPT !.signal = "receive"]
    /\ sigint' = [sigint EXCEPT !.notify = TRUE]
    /\ UNCHANGED <<srv, idleConnsClosed, interrupted>>

\* An interrupt signal reaches the process.  Once signal.Notify has
\* registered the channel the signal is sent to it without blocking (the
\* channel holds one signal, further ones are dropped); before that the
\* signal has its default effect and the process exits.
Interrupt ==
    /\ Running
    /\ interrupted' = TRUE
    /\ IF sigint.notify
       THEN /\ sigint' = [sigint EXCEPT !.len = 1]
            /\ UNCHANGED goroutine
       ELSE /\ goroutine' = [goroutine EXCEPT !.main = "killed"]
            /\ UNCHANGED sigint
    /\ UNCHANGED <<srv, idleConnsClosed>>

\* Line 93: <-sigint.
Receive ==
    /\ Running
    /\ goroutine.signal = "receive"
    /\ sigint.len = 1
    /\ sigint' = [sigint EXCEPT !.len = 0]
    /\ goroutine' = [goroutine EXCEPT !.signal = "shutdown"]
    /\ UNCHANGED <<srv, idleConnsClosed, interrupted>>

\* Line 96: srv.Shutdown is called; it marks the server as shutting down and
\* closes the listener.
ShutdownBegin ==
    /\ Running
    /\ goroutine.signal = "shutdown"
    /\ srv' = [srv EXCEPT !.inShutdown = TRUE,
                          !.listener = IF @ = "open" THEN "closed" ELSE @]
    /\ goroutine' = [goroutine EXCEPT !.signal = "draining"]
    /\ UNCHANGED <<sigint, idleConnsClosed, interrupted>>

\* Lines 96-99: srv.Shutdown(context.Background()) returns when no request
\* is in flight.
ShutdownReturn ==
    /\ Running
    /\ goroutine.signal = "draining"
    /\ srv.active = 0
    /\ goroutine' = [goroutine EXCEPT !.signal = "close"]
    /\ UNCHANGED <<srv, sigint, idleConnsClosed, interrupted>>

\* Line 100: close(idleConnsClosed).
CloseIdleConnsClosed ==
    /\ Running
    /\ goroutine.signal = "close"
    /\ idleConnsClosed' = TRUE
    /\ goroutine' = [goroutine EXCEPT !.signal = "end"]
    /\ UNCHANGED <<srv, sigint, interrupted>>

\* Line 104: srv.ListenAndServe() is called.  After Shutdown it returns
\* ErrServerClosed at once; otherwise it binds the address and serves, or
\* returns the error of the bind.
ListenAndServe ==
    /\ goroutine.main = "listen"
    /\ IF srv.inShutdown
       THEN /\ srv' = [srv EXCEPT !.err = "ErrServerClosed"]
            /\ goroutine' = [goroutine EXCEPT !.main = "wait"]
       ELSE \/ /\ srv' = [srv EXCEPT !.listener = "open"]
               /\ goroutine' = [goroutine EXCEPT !.main = "serving"]
            \/ /\ srv' = [srv EXCEPT !.err = "listen"]
               /\ goroutine' = [goroutine EXCEPT !.main = "wait"]
    /\ UNCHANGED <<sigint, idleConnsClosed, interrupted>>

\* The accept loop of ListenAndServe takes a connection and a handler
\* goroutine starts on its request.
Accept ==
    /\ goroutine.main = "serving"
    /\ srv.listener = "open"
    /\ srv.active < MaxConns
    /\ srv' = [srv EXCEPT !.active = @ + 1]
    /\ UNCHANGED <<goroutine, sigint, idleConnsClosed, interrupted>>

\* Line 104: the accept loop fails; ListenAndServe closes the listener and
\* returns the error.
AcceptError ==
    /\ goroutine.main = "serving"
    /\ srv.listener = "open"
    /\ srv' = [srv EXCEPT !.listener = "closed", !.err = "accept"]
    /\ goroutine' = [goroutine EXCEPT !.main = "wait"]
    /\ UNCHANGED <<sigint, idleConnsClosed, interrupted>>

\* Line 104: ListenAndServe returns ErrServerClosed once Shutdown has closed
\* the listener.
ServeReturn ==
    /\ goroutine.main = "serving"
    /\ srv.listener = "closed"
    /\ srv' = [srv EXCEPT !.err = "ErrServerClosed"]
    /\ goroutine' = [goroutine EXCEPT !.main = "wait"]
    /\ UNCHANGED <<sigint, idleConnsClosed, interrupted>>

\* A handler goroutine returns from ServeHTTP and its connection ends.
Finish ==
    /\ Running
    /\ srv.active > 0
    /\ srv' = [srv EXCEPT !.active = @ - 1]
    /\ UNCHANGED <<goroutine, sigint, idleConnsClosed, interrupted>>

\* Lines 109-110: <-idleConnsClosed, and main returns.
WaitIdleConnsClosed ==
    /\ goroutine.main = "wait"
    /\ idleConnsClosed
    /\ goroutine' = [goroutine EXCEPT !.main = "exited"]
    /\ UNCHANGED <<srv, sigint, idleConnsClosed, interrupted>>

\* The steps of the main goroutine, of the goroutine of lines 90-101 and of
\* the handler goroutines.
MainSteps ==
    GoSignalHandler \/ ListenAndServe \/ AcceptError \/ ServeReturn
    \/ WaitIdleConnsClosed

SignalSteps ==
    Notify \/ Receive \/ ShutdownBegin \/ ShutdownReturn
    \/ CloseIdleConnsClosed

MainNext ==
    /\ UNCHANGED handlerVars
    /\ \/ GoSignalHandler
       \/ Notify
       \/ Interrupt
       \/ Receive
       \/ ShutdownBegin
       \/ ShutdownReturn
       \/ CloseIdleConnsClosed
       \/ ListenAndServe
       \/ Accept
       \/ AcceptError
       \/ ServeReturn
       \/ Finish
       \/ WaitIdleConnsClosed

\* MainSpec: the process from line 89 on.  A goroutine that can take a step
\* takes it in the end, and a request in flight is answered in the end;
\* nothing makes a signal or a connection arrive.
MainSpec ==
    /\ Init
    /\ [][MainNext]_vars
    /\ WF_vars(MainSteps /\ UNCHANGED handlerVars)
    /\ WF_vars(SignalSteps /\ UNCHANGED handlerVars)
    /\ WF_vars(Finish /\ UNCHANGED handlerVars)

(***************************************************************************)
(* Properties.  They are stated over the requests a handler has answered   *)
(* (pc[h] = "done"): the request, the snapshot it was evaluated on, the    *)
(* response, the collaborator calls it made and the store after it.        *)
(***************************************************************************)
LockHeld(cm) == annotationKeyLockID \in DOMAIN cm.Annotations
LockID(cm) == Lookup(cm.Annotations, annotationKeyLockID)
NoLockAnnotations(cm) == DOMAIN cm.Annotations \cap LockAnnotationKeys = {}

Answered(h, methods) == pc[h] = "done" /\ req[h].method \in methods

\* The request passed the gates of ServeHTTP and its action was allowed.
Admitted(h) ==
    /\ Len(calls[h]) >= 4
    /\ calls[h][4].err = NoError
    /\ calls[h][4].ok

NoFault(h) == \A i \in 1..Len(calls[h]) : calls[h][i].err \notin Faults

MadeWrite(h) ==
    \E i \in 1..Len(calls[h]) : calls[h][i].fn \in {"Create", "Update", "Delete"}

Snapshot(h) == [present |-> exists[h], obj |-> configMap[h]]

RequestLockInfo(h) == Decode(req[h].body.json)

Encoded(h) == getTFStateForWriting(req[h].body.raw, compressState, minifyState)

\* The answer 423 with the stored lock record, and nothing written.
Refused(h) ==
    /\ resp[h].status = StatusLocked
    /\ resp[h].kind = "lock"
    /\ resp[h].lock = existingLockInfo(store.obj)
    /\ ~MadeWrite(h)
    /\ store = Snapshot(h)

\* C1: a LOCK with id B on an object whose stored lock id is A # B is
\* answered 423 with the stored lock record, makes no create, update or
\* delete call and leaves the stored object as it was.
C1_LockConflictRefused ==
    \A h \in Handlers :
        (/\ Answered(h, {MethodLock})
         /\ Admitted(h)
         /\ req[h].body.kind = "json"
         /\ LockHeld(configMap[h])
         /\ LockID(configMap[h]) # RequestLockInfo(h).ID)
        => Refused(h)

C1_Witness ==
    \E h \in Handlers :
        /\ Answered(h, {MethodLock})
        /\ LockID(configMap[h]) = "A"
        /\ req[h].body.kind = "json"
        /\ RequestLockInfo(h).ID = "B"
        /\ resp[h].status = StatusLocked
        /\ resp[h].lock = lockInfo("A", "apply", "i1", "w1")
        /\ existingLockInfo(store.obj) = lockInfo("A", "apply", "i1", "w1")

\* C2: a LOCK with id A on an object locked with id A is answered 200, the
\* stored id stays A and the stored Operation, Info and Who are those of
\* this request; the payload is untouched.
C2_RelockByHolder ==
    \A h \in Handlers :
        (/\ Answered(h, {MethodLock})
         /\ Admitted(h)
         /\ NoFault(h)
         /\ req[h].body.kind = "json"
         /\ LockHeld(configMap[h])
         /\ LockID(configMap[h]) = RequestLockInfo(h).ID)
        => /\ resp[h].status = StatusOK
           /\ store.present
           /\ LockAnnotationKeys \subseteq DOMAIN store.obj.Annotations
           /\ existingLockInfo(store.obj) = RequestLockInfo(h)
           /\ store.obj.BinaryData = configMap[h].BinaryData

C2_Witness ==
    \E h \in Handlers :
        /\ Answered(h, {MethodLock})
        /\ existingLockInfo(configMap[h]) = lockInfo("A", "apply", "i1", "w1")
        /\ req[h].body.kind = "json"
        /\ RequestLockInfo(h) = lockInfo("A", "plan", "", "w2")
        /\ resp[h].status = StatusOK
        /\ existingLockInfo(store.obj) = lockInfo("A", "plan", "", "w2")

\* C3, as claimed: on an object whose lock-id annotation is absent or empty
\* a LOCK with any id succeeds and is never answered 423.
C3_LockedIffNonEmpty ==
    \A h \in Handlers :
        (/\ Answered(h, {MethodLock})
         /\ Admitted(h)
         /\ NoFault(h)
         /\ req[h].body.kind = "json"
         /\ LockID(configMap[h]) = "")
        => resp[h].status = StatusOK

\* C3, amended: the object is locked when the lock-id annotation is present,
\* empty or not.  With the annotation absent a LOCK with any id succeeds;
\* with it present and empty a LOCK succeeds when its id is empty too and is
\* answered 423 with the stored record when its id is not.
C3_LockedIffPresent ==
    \A h \in Handlers :
        (/\ Answered(h, {MethodLock})
         /\ Admitted(h)
         /\ NoFault(h)
         /\ req[h].body.kind = "json")
        => /\ ~LockHeld(configMap[h]) => resp[h].status = StatusOK
           /\ (LockHeld(configMap[h]) /\ LockID(configMap[h]) = "")
              => IF RequestLockInfo(h).ID = ""
                 THEN resp[h].status = StatusOK
                 ELSE Refused(h)

C3_Witness ==
    \E h \in Handlers :
        /\ Answered(h, {MethodLock})
        /\ LockHeld(configMap[h])
        /\ LockID(configMap[h]) = ""
        /\ req[h].body.kind = "json"
        /\ RequestLockInfo(h).ID = "A"
        /\ resp[h].status = StatusLocked
        /\ prev.method = MethodLock
        /\ prev.id = ""

\* C4: on an object locked with a (non-empty) id A, a POST or DELETE whose
\* ID parameter is not A is answered 423 with the stored lock record and
\* writes nothing; with ID = A it is answered 200, the POST having stored
\* its state under the same lock annotations, the DELETE having deleted the
\* object.
C4_WriteGuardLocked ==
    \A h \in Handlers :
        (/\ Answered(h, {MethodPost, MethodDelete})
         /\ Admitted(h)
         /\ LockHeld(configMap[h])
         /\ LockID(configMap[h]) # "")
        => IF req[h].queryID # LockID(configMap[h])
           THEN Refused(h)
           ELSE (NoFault(h) /\ ~Encoded(h).err)
                => /\ resp[h].status = StatusOK
                   /\ MadeWrite(h)
                   /\ req[h].method = MethodDelete => store = NoObject
                   /\ req[h].method = MethodPost
                      => /\ store.present
                         /\ store.obj.BinaryData =
                              Put(configMap[h].BinaryData, "tfstate",
                                  Encoded(h).out)
                         /\ store.obj.Annotations = configMap[h].Annotations

C4_Witness ==
    \E h \in Handlers :
        /\ prev.method = MethodPost
        /\ prev.locked
        /\ prev.holder = "A"
        /\ prev.id = "A"
        /\ Answered(h, {MethodDelete})
        /\ req[h].queryID = "B"
        /\ LockID(configMap[h]) = "A"
        /\ resp[h].status = StatusLocked
        /\ "tfstate" \in DOMAIN store.obj.BinaryData

C6_UnlockConflictRefused ==
    \A h \in Handlers :
        (/\ Answered(h, {MethodUnlock})
         /\ exists[h]
         /\ Admitted(h)
         /\ req[h].body.kind = "json"
         /\ LockID(configMap[h]) # ""
         /\ LockID(configMap[h]) # RequestLockInfo(h).ID)
        => Refused(h)

\* The case of C6 the handler does refuse: the request declares the length
\* of its body.
UnlockConflictRefusedWithLength ==
    \A h \in Handlers :
        (/\ Answered(h, {MethodUnlock})
         /\ exists[h]
         /\ Admitted(h)
         /\ hasBody(req[h])
         /\ req[h].body.kind = "json"
         /\ LockHeld(configMap[h])
         /\ LockID(configMap[h]) # RequestLockInfo(h).ID)
        => Refused(h)

\* The stored object after a release: no lock annotation, the payload of
\* the snapshot.
Released(h) ==
    /\ resp[h].status = StatusOK
    /\ store.present
    /\ NoLockAnnotations(store.obj)
    /\ store.obj.BinaryData = configMap[h].BinaryData

\* C7: an UNLOCK whose body id equals the held lock id is answered 200 and
\* leaves the object without any of the four lock annotations and with its
\* payload; the POST with an empty ID parameter that follows it is answered
\* 200 and stores its state.
C7_UnlockByHolder ==
    \A h \in Handlers :
        /\ (/\ Answered(h, {MethodUnlock})
            /\ Admitted(h)
            /\ NoFault(h)
            /\ req[h].body.kind = "json"
            /\ LockHeld(configMap[h])
            /\ LockID(configMap[h]) = RequestLockInfo(h).ID)
           => Released(h)
        /\ (/\ prev.method = MethodUnlock
            /\ prev.locked
            /\ prev.id = prev.holder
            /\ Answered(h, {MethodPost})
            /\ req[h].queryID = ""
            /\ Admitted(h)
            /\ NoFault(h)
            /\ ~Encoded(h).err)
           => /\ resp[h].status = StatusOK
              /\ store.present
              /\ store.obj.BinaryData =
                   Put(configMap[h].BinaryData, "tfstate", Encoded(h).out)
              /\ NoLockAnnotations(store.obj)

C7_Witness ==
    \E h \in Handlers :
        /\ prev.method = MethodUnlock
        /\ prev.locked
        /\ prev.holder = "A"
        /\ prev.id = "A"
        /\ Answered(h, {MethodPost})
        /\ req[h].queryID = ""
        /\ resp[h].status = StatusOK
        /\ MadeWrite(h)
        /\ NoLockAnnotations(store.obj)

C9_UnlockOnlyByHolder ==
    \A h \in Handlers :
        (/\ Answered(h, {MethodUnlock})
         /\ LockID(configMap[h]) # ""
         /\ resp[h].status = StatusOK
         /\ NoLockAnnotations(store.obj))
        => /\ req[h].body.kind = "json"
           /\ RequestLockInfo(h).ID = LockID(configMap[h])

\* C10: two LOCK requests with different ids are never both answered 200
\* without an UNLOCK or DELETE answered 200 between the two grants.
C10_MutualExclusion == mutex

\* The collaborator calls of a request come in this order: TokenReview,
\* the SubjectAccessReview for "get", Get, the SubjectAccessReview for the
\* action of the method, the store write.  StoreCalls are the positions of
\* the calls to the store, Mutations those of its writes.
StoreCalls(h) ==
    {i \in 1..Len(calls[h]) :
        calls[h][i].fn \in {"Get", "Create", "Update", "Delete"}}

Mutations(h) ==
    {i \in 1..Len(calls[h]) :
        calls[h][i].fn \in {"Create", "Update", "Delete"}}

\* C11: a DELETE with an empty ID parameter, from a caller allowed to get
\* and to delete, on an object that does not exist is answered with a
\* success status and an empty body when no collaborator call fails
\* otherwise.
C11_DeleteIdempotent ==
    \A h \in Handlers :
        (/\ Answered(h, {MethodDelete})
         /\ Admitted(h)
         /\ NoFault(h)
         /\ req[h].queryID = ""
         /\ ~exists[h])
        => /\ resp[h].status = StatusOK
           /\ resp[h].kind = "empty"

\* A failed collaborator call: any error, but for the not-found of Get and
\* of Delete.
Failed(c) ==
    /\ c.err # NoError
    /\ ~(c.fn \in {"Get", "Delete"} /\ c.err = ErrNotFound)

\* The status a failed call is to be answered with.
StatusOf(err) == IF err.isStatus THEN err.code ELSE StatusInternalServerError

\* C12: a request in which a call to the identity provider, the authorizer
\* or the store failed is answered with the status code the error carries,
\* or with 500 when it carries none; this holds for every method and every
\* call, the store delete of DELETE included.
C12_CollaboratorErrorsSurface ==
    \A h \in Handlers :
        pc[h] = "done"
        => \A i \in 1..Len(calls[h]) :
              Failed(calls[h][i])
              => /\ resp[h].status # StatusOK
                 /\ resp[h].status = StatusOf(calls[h][i].err)

\* The part of C12 the handler keeps: every failed call but the store delete
\* is answered with the status of its error.
CollaboratorErrorsSurfaceButDelete ==
    \A h \in Handlers :
        pc[h] = "done"
        => \A i \in 1..Len(calls[h]) :
              (Failed(calls[h][i]) /\ calls[h][i].fn # "Delete")
              => resp[h].status = StatusOf(calls[h][i].err)

\* C13: a request without basic-auth credential is answered 401 with the
\* WWW-Authenticate header and an empty body, whatever its method and path,
\* and makes no call to the identity provider, the authorizer or the store.
C13_NoCredentialUnauthorized ==
    \A h \in Handlers :
        (pc[h] # "idle" /\ ~req[h].basicAuth)
        => /\ pc[h] = "done"
           /\ resp[h].status = StatusUnauthorized
           /\ resp[h].wwwAuthenticate
           /\ resp[h].kind = "empty"
           /\ calls[h] = <<>>

\* A POST without credential on a bad path, after a write that was answered
\* 200: answered 401 and nothing called.
C13_Witness ==
    \E h \in Handlers :
        /\ Answered(h, {MethodPost})
        /\ ~req[h].basicAuth
        /\ req[h].path # GoodPath
        /\ store.present
        /\ resp[h].status = StatusUnauthorized
        /\ resp[h].wwwAuthenticate
        /\ calls[h] = <<>>

\* C14: when the identity provider reports the credential as not
\* authenticated the request is answered 403, and when its call fails the
\* request is answered with the status code of the error, or 500; in both
\* cases the TokenReview is the only collaborator call of the request.
C14_IdentityGateFailsClosed ==
    \A h \in Handlers :
        (/\ pc[h] # "idle"
         /\ Len(calls[h]) >= 1
         /\ calls[h][1].fn = "TokenReview"
         /\ (calls[h][1].err # NoError \/ ~calls[h][1].ok))
        => /\ pc[h] = "done"
           /\ Len(calls[h]) = 1
           /\ resp[h].status =
                 IF calls[h][1].err = NoError THEN StatusForbidden
                 ELSE StatusOf(calls[h][1].err)

\* Every request that made a collaborator call made the TokenReview first.
TokenReviewFirst ==
    \A h \in Handlers :
        Len(calls[h]) >= 1 => calls[h][1].fn = "TokenReview"

\* A DELETE on the good path with a rejected credential, on a stored object.
C14_Witness ==
    \E h \in Handlers :
        /\ Answered(h, {MethodDelete})
        /\ req[h].path = GoodPath
        /\ store.present
        /\ Len(calls[h]) = 1
        /\ calls[h][1].err = NoError
        /\ ~calls[h][1].ok
        /\ resp[h].status = StatusForbidden

\* The request passed the identity gate.
Identified(h) ==
    /\ pc[h] # "idle"
    /\ Len(calls[h]) >= 1
    /\ calls[h][1].err = NoError
    /\ calls[h][1].ok

\* A path of exactly two segments, none of them empty.
TwoSegments(p) ==
    /\ Len(Split(Tail(p))) = 2
    /\ Split(Tail(p))[1] # ""
    /\ Split(Tail(p))[2] # ""

\* C15: an authenticated request whose path does not split into exactly two
\* non-empty segments is answered 404 and makes no call after the
\* TokenReview; this includes "/ns/" and "//".
C15_BadPathNotFound ==
    \A h \in Handlers :
        (Identified(h) /\ ~TwoSegments(req[h].path))
        => /\ pc[h] = "done"
           /\ resp[h].status = StatusNotFound
           /\ Len(calls[h]) = 1

\* The part of C15 the handler keeps: a path of one or of three segments.
SegmentCountNotFound ==
    \A h \in Handlers :
        (Identified(h) /\ Len(Split(Tail(req[h].path))) # 2)
        => /\ pc[h] = "done"
           /\ resp[h] = EmptyResponse(StatusNotFound)
           /\ Len(calls[h]) = 1

\* The review of the baseline action "get" came back with a denial.
GetDenied(h) ==
    /\ pc[h] # "idle"
    /\ Len(calls[h]) >= 2
    /\ calls[h][2].fn = "SubjectAccessReview"
    /\ calls[h][2].arg = "get"
    /\ calls[h][2].err = NoError
    /\ ~calls[h][2].ok

\* C16: for every method, a request whose baseline get permission is denied
\* is answered 403 with an empty body and makes no store call: the response
\* is the same whether the object exists or not, whatever its payload and
\* its lock.
C16_DenyBeforeReveal ==
    \A h \in Handlers :
        GetDenied(h)
        => /\ pc[h] = "done"
           /\ resp[h] = EmptyResponse(StatusForbidden)
           /\ Len(calls[h]) = 2
           /\ StoreCalls(h) = {}

\* A denied DELETE with the holder's id on an object that is stored, locked
\* and carries a state.
C16_Witness ==
    \E h \in Handlers :
        /\ Answered(h, {MethodDelete})
        /\ GetDenied(h)
        /\ req[h].queryID = "A"
        /\ store.present
        /\ LockID(store.obj) = "A"
        /\ "tfstate" \in DOMAIN store.obj.BinaryData
        /\ resp[h] = EmptyResponse(StatusForbidden)

\* The action a method is to be authorized for before its store write.
ActionOf(method, write) ==
    IF method \in {MethodPost, MethodLock}
    THEN (IF write = "Create" THEN {"create"} ELSE {"update"})
    ELSE IF method = MethodDelete THEN {"delete"}
    ELSE IF method = MethodUnlock THEN {"update"}
    ELSE {}

\* C17: a create, update or delete call is made only after the authorizer
\* allowed the action get and then the action of the request (create or
\* update for POST and LOCK, delete for DELETE, update for UNLOCK); a
\* request whose action is denied is answered 403, makes no store write and
\* leaves the store as it was.
C17_NoMutationWithoutAuthorization ==
    \A h \in Handlers :
        /\ \A i \in Mutations(h) :
              /\ i = 5
              /\ calls[h][2] = Call("SubjectAccessReview", "get", NoError, TRUE)
              /\ calls[h][4].fn = "SubjectAccessReview"
              /\ calls[h][4].arg \in ActionOf(req[h].method, calls[h][i].fn)
              /\ calls[h][4].err = NoError
              /\ calls[h][4].ok
        /\ (/\ Len(calls[h]) >= 4
            /\ calls[h][4].err = NoError
            /\ ~calls[h][4].ok)
           => /\ pc[h] = "done"
              /\ resp[h].status = StatusForbidden
              /\ Mutations(h) = {}
              /\ store = Snapshot(h)

\* An UNLOCK without body, allowed to get and denied to update, on a locked
\* object: 403, and the lock is still stored.
C17_Witness ==
    \E h \in Handlers :
        /\ Answered(h, {MethodUnlock})
        /\ req[h].contentLength = 0
        /\ Len(calls[h]) = 4
        /\ calls[h][4] = Call("SubjectAccessReview", "update", NoError, FALSE)
        /\ resp[h].status = StatusForbidden
        /\ store.present
        /\ LockID(store.obj) = "A"

\* C18: POST and LOCK ask the authorizer for create and call the store's
\* create exactly when the Get of the request found no object, and ask for
\* update and call the store's update exactly when it found one; DELETE
\* asks for delete and UNLOCK for update.
C18_ActionSelection ==
    \A h \in Handlers :
        (pc[h] = "done" /\ Len(calls[h]) >= 4)
        => LET found == calls[h][3].ok
               verb == calls[h][4].arg
           IN  /\ calls[h][3].fn = "Get"
               /\ calls[h][4].fn = "SubjectAccessReview"
               /\ req[h].method \in {MethodPost, MethodLock}
                  => /\ verb = "create" <=> ~found
                     /\ verb = "update" <=> found
               /\ req[h].method = MethodDelete => verb = "delete"
               /\ req[h].method = MethodUnlock => verb = "update"
               /\ Len(calls[h]) = 5
                  => /\ calls[h][5].fn = "Create" <=> verb = "create"
                     /\ calls[h][5].fn = "Update" <=> verb = "update"
                     /\ calls[h][5].fn = "Delete" <=> verb = "delete"

\* A LOCK that updates the object the POST before it created.
C18_Witness ==
    \E h \in Handlers :
        /\ prev.method = MethodPost
        /\ prev.apiVerb = "create"
        /\ Answered(h, {MethodLock})
        /\ Len(calls[h]) = 5
        /\ calls[h][3].ok
        /\ calls[h][4].arg = "update"
        /\ calls[h][5].fn = "Update"
        /\ resp[h].status = StatusOK

\* A GET that passed the gates and whose Get of the object did not fail.
Fetched(h) ==
    /\ Answered(h, {MethodGet})
    /\ Len(calls[h]) = 3
    /\ calls[h][3].err \in {NoError, ErrNotFound}

\* C19: with minification disabled and requests handled one at a time, a
\* GET is answered 200 with the body of the last POST answered 200 since the
\* last DELETE answered 200, and with an empty body when there is none; it
\* leaves the store as it found it.
C19_GetMatchesRegister ==
    \A h \in Handlers :
        (Fetched(h) /\ ~minifyState)
        => /\ resp[h].status = StatusOK
           /\ resp[h].bytes = register
           /\ store = Snapshot(h)

\* A POST that stored its state.
Stored(h) ==
    /\ Answered(h, {MethodPost})
    /\ resp[h].status = StatusOK
    /\ Len(calls[h]) = 5

\* C20: for both values of the compress flag, reading back what a POST
\* stored gives, with minification off, the bytes of the request body, the
\* empty body included, and with minification on the minified form of the
\* body: the whitespace removed on write is not put back on read.
C20_CodecRoundTrip ==
    \A h \in Handlers :
        Stored(h)
        => /\ "tfstate" \in DOMAIN store.obj.BinaryData
           /\ getResponse(store.obj, compressState) =
                 StateResponse(StatusOK,
                               IF minifyState THEN Minify(req[h].body.raw).out
                               ELSE req[h].body.raw)
           /\ compressState
              => store.obj.BinaryData["tfstate"] # req[h].body.raw

\* A state with whitespace, stored minified and compressed, reads back
\* without the whitespace.
C20_Witness ==
    \E h \in Handlers :
        /\ Stored(h)
        /\ compressState
        /\ minifyState
        /\ req[h].body.raw = <<"{", " ", "}">>
        /\ store.obj.BinaryData["tfstate"] = Gzip(<<"{", "}">>)
        /\ getResponse(store.obj, compressState).bytes = <<"{", "}">>

\* The request before this one was a LOCK that created the object.
AfterLockCreate == prev.method = MethodLock /\ prev.apiVerb = "create"

\* C21: a LOCK with a valid body on an object that does not exist is
\* answered 200 and creates, under the requested name, an object with the
\* four lock annotations of the request and no payload; the GET that follows
\* is answered 200 with an empty body and the POST that follows asks for
\* update and calls the store's update.
C21_LockCreatesPlaceholder ==
    \A h \in Handlers :
        /\ (/\ Answered(h, {MethodLock})
            /\ Admitted(h)
            /\ NoFault(h)
            /\ req[h].body.kind = "json"
            /\ ~exists[h])
           => /\ resp[h].status = StatusOK
              /\ calls[h][5].fn = "Create"
              /\ store.present
              /\ store.obj.Name = Split(Tail(req[h].path))[2]
              /\ store.obj.Name # ""
              /\ DOMAIN store.obj.Annotations = LockAnnotationKeys
              /\ existingLockInfo(store.obj) = RequestLockInfo(h)
              /\ store.obj.BinaryData = NoBinaryData
        /\ (AfterLockCreate /\ Fetched(h))
           => resp[h] = EmptyResponse(StatusOK)
        /\ (AfterLockCreate /\ Answered(h, {MethodPost}) /\ Len(calls[h]) >= 4)
           => /\ calls[h][4].arg = "update"
              /\ Len(calls[h]) = 5 => calls[h][5].fn = "Update"

\* The holder's POST after a LOCK that created the object: an update that
\* adds the state to the placeholder and keeps the lock.
C21_Witness ==
    \E h \in Handlers :
        /\ AfterLockCreate
        /\ prev.id = "A"
        /\ Answered(h, {MethodPost})
        /\ req[h].queryID = "A"
        /\ configMap[h].BinaryData = NoBinaryData
        /\ configMap[h].Name = "name"
        /\ resp[h].status = StatusOK
        /\ calls[h][5].fn = "Update"
        /\ LockID(store.obj) = "A"
        /\ "tfstate" \in DOMAIN store.obj.BinaryData

\* C22: an UNLOCK on an object that does not exist is answered 404 after
\* the Get: no review for update, no store write, and no object is stored.
C22_UnlockAbsentNotFound ==
    \A h \in Handlers :
        (/\ Answered(h, {MethodUnlock})
         /\ Len(calls[h]) >= 3
         /\ calls[h][3].err = ErrNotFound)
        => /\ resp[h] = EmptyResponse(StatusNotFound)
           /\ Len(calls[h]) = 3
           /\ Mutations(h) = {}
           /\ store = NoObject

C22_Witness ==
    \E h \in Handlers :
        /\ Answered(h, {MethodUnlock})
        /\ req[h].body.kind = "json"
        /\ RequestLockInfo(h).ID = "A"
        /\ Len(calls[h]) = 3
        /\ calls[h][3] = Call("Get", "", ErrNotFound, FALSE)
        /\ resp[h].status = StatusNotFound
        /\ store = NoObject

\* The answer 500 of a request that wrote nothing.
Rejected(h) ==
    /\ resp[h].status = StatusInternalServerError
    /\ Mutations(h) = {}
    /\ store = Snapshot(h)

\* C23: a LOCK whose body is no lock record, or an UNLOCK with a non-empty
\* body that is no lock record, is answered 500, makes no create or update
\* call and leaves the stored object unchanged.
C23_UnparsableBodyRejected ==
    \A h \in Handlers :
        /\ (/\ Answered(h, {MethodLock})
            /\ Admitted(h)
            /\ req[h].body.kind # "json")
           => Rejected(h)
        /\ (/\ Answered(h, {MethodUnlock})
            /\ Admitted(h)
            /\ req[h].body.kind = "malformed")
           => Rejected(h)

\* The part of C23 the handler keeps: the LOCK, and the UNLOCK that declares
\* the length of its body.
UnparsableBodyRejectedWithLength ==
    \A h \in Handlers :
        (/\ Answered(h, {MethodLock, MethodUnlock})
         /\ Admitted(h)
         /\ req[h].body.kind # "json"
         /\ req[h].method = MethodUnlock => hasBody(req[h]))
        => Rejected(h)

\* A complete gzip stream: header, data, trailer.
CompleteStream(b) ==
    /\ Len(b) >= 2
    /\ b[1] = GzipHeader
    /\ b[Len(b)] = GzipTrailer

\* A GET, with compression enabled, of a stored payload.
FetchedCompressed(h) ==
    /\ Fetched(h)
    /\ compressState
    /\ "tfstate" \in DOMAIN configMap[h].BinaryData

\* C24: with compression enabled, a GET of an object whose stored bytes are
\* no complete gzip stream, wherever the stream goes wrong, is answered 500
\* and never 200.
C24_UndecodableGetFails ==
    \A h \in Handlers :
        (/\ FetchedCompressed(h)
         /\ ~CompleteStream(configMap[h].BinaryData["tfstate"]))
        => resp[h].status = StatusInternalServerError

\* The part of C24 the handler keeps: a stream that goes wrong before any
\* byte of the state is decoded.
UndecodableFromStartGetFails ==
    \A h \in Handlers :
        (/\ FetchedCompressed(h)
         /\ ~CompleteStream(configMap[h].BinaryData["tfstate"])
         /\ \/ Len(configMap[h].BinaryData["tfstate"]) <= 1
            \/ configMap[h].BinaryData["tfstate"][1] # GzipHeader)
        => resp[h] = TextResponse(StatusInternalServerError)

\* All four lock annotations, or none of them.
AllOrNone(cm) ==
    \/ DOMAIN cm.Annotations \cap LockAnnotationKeys = {}
    \/ LockAnnotationKeys \subseteq DOMAIN cm.Annotations

\* C25: starting without object, in every interleaving of GET, POST, DELETE,
\* LOCK and UNLOCK requests the stored object, and every snapshot a handler
\* fetched of it, carries all four lock annotations or none.
C25_LockAnnotationsAllOrNone ==
    /\ AllOrNone(store.obj)
    /\ \A h \in Handlers : AllOrNone(configMap[h])

\* A LOCK and an UNLOCK that fetched the same locked object and both wrote
\* it, the LOCK last: the four annotations are stored.
C25_Witness ==
    \E h, g \in Handlers :
        /\ Answered(h, {MethodLock})
        /\ Answered(g, {MethodUnlock})
        /\ resp[h].status = StatusOK
        /\ resp[g].status = StatusOK
        /\ MadeWrite(h)
        /\ MadeWrite(g)
        /\ LockHeld(configMap[h])
        /\ configMap[g] = configMap[h]
        /\ DOMAIN store.obj.Annotations = LockAnnotationKeys

\* The methods the switch of ServeHTTP has a case for.
ServedMethods ==
    {MethodGet, MethodPost, MethodDelete, MethodLock, MethodUnlock}

\* C26: a request with a method other than GET, POST, DELETE, LOCK and
\* UNLOCK makes no store write and no review after the one for get, and
\* once past the gates and the Get it is answered 404 with the store as it
\* found it.
C26_OtherMethodNotFound ==
    \A h \in Handlers :
        (pc[h] # "idle" /\ req[h].method \notin ServedMethods)
        => /\ Mutations(h) = {}
           /\ Len(calls[h]) <= 3
           /\ \A i \in 1..Len(calls[h]) :
                 calls[h][i].fn = "SubjectAccessReview"
                 => calls[h][i].arg = "get"
           /\ (Len(calls[h]) = 3 /\ calls[h][3].err \in {NoError, ErrNotFound})
              => /\ pc[h] = "done" => resp[h] = EmptyResponse(StatusNotFound)
                 /\ store = Snapshot(h)

\* A PUT on a stored, locked object: 404.
C26_Witness ==
    \E h \in Handlers :
        /\ Answered(h, {MethodOther})
        /\ req[h].path = GoodPath
        /\ Len(calls[h]) = 3
        /\ calls[h][3].ok
        /\ LockID(store.obj) = "A"
        /\ resp[h].status = StatusNotFound

\* Both runs of a request are answered: the first handler served it, the
\* second its twin under another username, from the same store.
TwinsAnswered ==
    /\ twin.stage = "second"
    /\ pc[FirstHandler] = "done"
    /\ pc[SecondHandler] = "done"

\* The collaborators gave both runs the same answers, call by call, as far
\* as both runs went.
SameAnswers ==
    \A i \in 1..Len(calls[FirstHandler]) :
        i <= Len(calls[SecondHandler])
        => /\ calls[FirstHandler][i].err = calls[SecondHandler][i].err
           /\ calls[FirstHandler][i].ok = calls[SecondHandler][i].ok

\* C27: two requests that differ only in the basic-auth username, served
\* from the same store and given the same answers by the collaborators,
\* make the same collaborator calls, get the same response and leave the
\* same store; the token of the TokenReview is the password of the request.
C27_UsernameIgnored ==
    /\ \A h \in Handlers :
          Len(calls[h]) >= 1
          => /\ calls[h][1].fn = "TokenReview"
             /\ calls[h][1].arg = req[h].password
    /\ (TwinsAnswered /\ SameAnswers)
       => /\ req[SecondHandler].username # req[FirstHandler].username
          /\ Twin(req[SecondHandler], req[FirstHandler].username)
                = req[FirstHandler]
          /\ calls[SecondHandler] = calls[FirstHandler]
          /\ resp[SecondHandler] = resp[FirstHandler]
          /\ configMap[SecondHandler] = configMap[FirstHandler]
          /\ store = twin.after

\* A POST under the username terraform and its twin under admin, both with
\* the password other-token: both create the object.
C27_Witness ==
    /\ TwinsAnswered
    /\ SameAnswers
    /\ req[FirstHandler].method = MethodPost
    /\ req[FirstHandler].username = "terraform"
    /\ req[SecondHandler].username = "admin"
    /\ req[SecondHandler].password = "other-token"
    /\ calls[SecondHandler][1].arg = "other-token"
    /\ twin.before = NoObject
    /\ twin.after.present
    /\ Len(calls[SecondHandler]) = 5
    /\ calls[SecondHandler][5].fn = "Create"
    /\ resp[SecondHandler].status = StatusOK
    /\ store = twin.after

\* C28: once a LOCK with id A was answered 200, the stored lock id is A
\* until an UNLOCK, a DELETE or a later LOCK is answered 200, in every
\* interleaving with POST requests handled at the same time.
C28_GrantedLockStable ==
    granted.held
    => /\ store.present
       /\ LockHeld(store.obj)
       /\ LockID(store.obj) = granted.id

\* The stored payload is the encoding of the body in the register.
PayloadIsRegister ==
    /\ (store.present /\ "tfstate" \in DOMAIN store.obj.BinaryData)
       => store.obj.BinaryData["tfstate"] =
            getTFStateForWriting(register, compressState, minifyState).out
    /\ register # <<>>
       => /\ store.present
          /\ "tfstate" \in DOMAIN store.obj.BinaryData

\* C29: once a POST was answered 200, the stored payload is the one it
\* wrote until a later POST or DELETE is answered 200, in every
\* interleaving with LOCK and UNLOCK requests handled at the same time.
C29_NoLostWrite == PayloadIsRegister

\* The annotations of an object that are no lock annotations.
OtherAnnotations(cm) ==
    [k \in DOMAIN cm.Annotations \ LockAnnotationKeys |-> cm.Annotations[k]]

\* C30: with requests handled one at a time, the step that answers a
\* request changes the store within the frame of its method: a POST
\* answered 200 leaves the annotations of the object as they were; a LOCK
\* or UNLOCK answered 200 leaves the payload and every annotation that is
\* no lock annotation as they were; a GET, and every request answered 401,
\* 403 or 423, leaves the store as it was.
C30_FrameConditions ==
    [][\A h \in Handlers :
          (pc[h] # "done" /\ pc'[h] = "done")
          => /\ (\/ req'[h].method = MethodGet
                 \/ resp'[h].status \in {StatusUnauthorized, StatusForbidden,
                                          StatusLocked})
                => store' = store
             /\ (req'[h].method = MethodPost /\ resp'[h].status = StatusOK)
                => /\ store'.present
                   /\ store'.obj.Annotations = store.obj.Annotations
             /\ (/\ req'[h].method \in {MethodLock, MethodUnlock}
                 /\ resp'[h].status = StatusOK)
                => /\ store'.present
                   /\ store'.obj.BinaryData = store.obj.BinaryData
                   /\ OtherAnnotations(store'.obj) = OtherAnnotations(store.obj)
      ]_vars

\* The holder's POST on a locked object with a state: the payload changed,
\* the lock annotations did not.
C30_Witness ==
    \E h \in Handlers :
        /\ Answered(h, {MethodPost})
        /\ resp[h].status = StatusOK
        /\ existingLockInfo(configMap[h]) = lockInfo("A", "apply", "i1", "w1")
        /\ "tfstate" \in DOMAIN configMap[h].BinaryData
        /\ store.obj.BinaryData # configMap[h].BinaryData
        /\ store.obj.Annotations = configMap[h].Annotations

\* The positions of the reads of the store among the calls of a request.
Reads(h) == {i \in 1..Len(calls[h]) : calls[h][i].fn = "Get"}

\* A call that came back with an error; the not-found of Get is the answer
\* "no such object" and no failure.
Errored(c) == c.err # NoError /\ ~(c.fn = "Get" /\ IsNotFound(c.err))

\* C31: a request makes at most one Get, and exactly one, as its third
\* call, once it is past the gates; it makes at most one of Create, Update
\* and Delete; and a call that failed is the last call of the request, so
\* no call is made again after a failure.
C31_OneReadOneMutation ==
    \A h \in Handlers :
        /\ Cardinality(Reads(h)) <= 1
        /\ (pc[h] = "fetched" \/ Len(calls[h]) >= 3) => Reads(h) = {3}
        /\ Cardinality(Mutations(h)) <= 1
        /\ \A i \in 1..Len(calls[h]) :
              Errored(calls[h][i]) => i = Len(calls[h])

\* An update that failed: it was the one write of the request, and the
\* request ended with it.
C31_Witness ==
    \E h \in Handlers :
        /\ pc[h] = "done"
        /\ Len(calls[h]) = 5
        /\ calls[h][5].fn = "Update"
        /\ calls[h][5].err = StatusError(503)
        /\ resp[h].status = 503

\* The caller was allowed to get the object and the authorizer denied the
\* action of the method.
ActionDenied(h) ==
    /\ Len(calls[h]) >= 4
    /\ calls[h][4].fn = "SubjectAccessReview"
    /\ calls[h][4].err = NoError
    /\ ~calls[h][4].ok

\* C32: a POST, DELETE, LOCK or UNLOCK on a locked object whose action the
\* authorizer denies is answered 403, whatever lock id the request carries:
\* it is not answered 423, its body is the text of the error and holds no
\* field of the lock record, and nothing is written.
C32_DenialBeforeLockCheck ==
    \A h \in Handlers :
        (/\ Answered(h, {MethodPost, MethodDelete, MethodLock, MethodUnlock})
         /\ ActionDenied(h)
         /\ LockHeld(configMap[h]))
        => /\ resp[h].status = StatusForbidden
           /\ resp[h].kind = "text"
           /\ resp[h].lock = EmptyLockInfo
           /\ ~MadeWrite(h)

\* A POST that does not carry the id of the lock and is denied its action.
C32_Witness ==
    \E h \in Handlers :
        /\ Answered(h, {MethodPost})
        /\ ActionDenied(h)
        /\ LockID(configMap[h]) = "A"
        /\ ~checkRequestIsFromLocker(configMap[h], req[h])
        /\ resp[h].status = StatusForbidden

\* The request that returned last was a DELETE answered 200 on a locked
\* object, carrying the id of the lock.
HolderDeleted ==
    /\ prev.method = MethodDelete
    /\ prev.status = StatusOK
    /\ prev.locked
    /\ prev.holder # ""
    /\ prev.id = prev.holder

\* C33: after a DELETE on a locked object that carried the id of the lock
\* and was answered 200, the object is absent; the next request, when it is
\* a LOCK, with whatever id, by a caller allowed its action and with no call
\* failing, is answered 200 and creates the object with its lock; when it
\* is a POST with an empty ID parameter, it is answered 200.
C33_DeleteReleasesLock ==
    HolderDeleted
    => /\ pc[FirstHandler] = "idle" => ~store.present
       /\ \A h \in Handlers :
             (/\ Answered(h, {MethodLock})
              /\ Admitted(h)
              /\ NoFault(h)
              /\ req[h].body.kind = "json")
             => /\ resp[h].status = StatusOK
                /\ calls[h][5].fn = "Create"
                /\ store.present
                /\ existingLockInfo(store.obj) = RequestLockInfo(h)
       /\ \A h \in Handlers :
             (/\ Answered(h, {MethodPost})
              /\ Admitted(h)
              /\ NoFault(h)
              /\ req[h].queryID = ""
              /\ ~Encoded(h).err)
             => resp[h].status = StatusOK

\* The Shutdown call of line 96 has returned.
ShutdownReturned == goroutine.signal \in {"close", "end"}

\* C34: once Shutdown is called the listener is not open, so no connection
\* is accepted any more; and when the process, after its server began to
\* listen, has ended after an interrupt signal, the Shutdown call has
\* returned and no request is in flight.
C34_CooperativeShutdown ==
    /\ srv.inShutdown => srv.listener # "open"
    /\ (interrupted /\ ~Running /\ srv.listener # "none")
       => /\ ShutdownReturned
          /\ srv.active = 0

\* The part of C34 that holds: when main returns, the Shutdown call has
\* returned and no request is in flight.
ShutdownBeforeMainReturns ==
    /\ srv.inShutdown => srv.listener # "open"
    /\ goroutine.main = "exited"
       => /\ interrupted
          /\ ShutdownReturned
          /\ srv.active = 0

\* ListenAndServe returned an error other than ErrServerClosed.
ListenFailed == srv.err \in {"listen", "accept"}

\* C35: whenever ListenAndServe has returned an error other than
\* ErrServerClosed and no interrupt signal was sent, then in the end main
\* has returned or an interrupt signal is sent.
C35_MainTerminates ==
    (ListenFailed /\ ~interrupted) ~> (~Running \/ interrupted)

====
